---------------------------- MODULE Spec2Model ----------------------------
(***************************************************************************)
(* tacky-borders: the animation tick functions (src/src/animations.rs) and *)
(* the WinEvent dispatchers (src/src/event_hook.rs).                       *)
(*                                                                         *)
(* Numbers.  f32 quantities are fixed-point integers:                      *)
(*   - angles are whole degrees; a spiral tick gets its elapsed time in    *)
(*     tenths of a second and a speed in degrees/second that is a multiple *)
(*     of 10, so that elapsed * speed is a whole number of degrees;        *)
(*   - fade progress and opacities are thousandths (One = 1.0); a fade     *)
(*     tick gets its elapsed time in tenths of a second and a speed in     *)
(*     whole progress-units/second, so that elapsed * speed is a whole     *)
(*     number of tenths.                                                   *)
(* Rounding of f32 arithmetic below that resolution is not modelled.       *)
(*                                                                         *)
(* Each component has its own specification (SpecSpiral, SpecFade,         *)
(* SpecDispatch, SpecConfig, SpecWatcher): the components share no state   *)
(* in the code under src/, and a specification leaves the variables of the *)
(* other components at their initial values.                               *)
(***************************************************************************)
EXTENDS Integers, Sequences, FiniteSets, TLC

VARIABLES
    \* ---- Animations (animations.rs:50-66) and the border fields the ticks use
    spiral_angle,       \* border.animations.spiral_angle (degrees)
    spiral_norm,        \* history: spiral_angle right after the normalization
                        \* step of the most recent spiral / reverse-spiral tick
    spiral_last,        \* history: the most recent spiral tick (its kind,
                        \* its inputs, the angle before it and the angle it
                        \* handed to Matrix3x2::rotation)
    fade_progress,      \* border.animations.fade_progress (thousandths)
    fade_to_visible,    \* border.animations.fade_to_visible
    active_opacity,     \* border.active_color.get_opacity() (thousandths)
    inactive_opacity,   \* border.inactive_color.get_opacity() (thousandths)
    is_active_window,   \* border.is_active_window
    event_anim,         \* border.event_anim
    fade_last,          \* history: the most recent animate_fade call, with the
                        \* state it started from; now = it has just returned
    finished_at,        \* history: the bound the fade was clamped to, -1 if the
                        \* fade has not finished since the last focus change
    after_finish,       \* history: animate_fade calls since that clamp (capped)
    \* ---- the border as handle_win_event reaches it (event_hook.rs:25-89)
    border_pointer,     \* BORDER_POINTER.get() is Some
    factory_pointer,    \* FACTORY_POINTER.get() is Some
    process,            \* "running", or "aborted" after a panic in a callback
    border_window,      \* the border's window: "Tracking" (shown), "Hidden",
                        \* "Destroyed"
    calls,              \* history: what the dispatcher called on the border
    win_last,           \* history: the most recent handle_win_event call, with
                        \* the state it started from
    \* ---- configuration loading (animations.rs:22-70)
    config,             \* the document handed to the deserializer
    animations,         \* "unloaded", "error", or the Animations it produced
    \* ---- the window-creation watcher (event_hook.rs:91-135)
    hooks,              \* the handles of the registered handle_win_event_main hooks
    next_hook,          \* the handle the next SetWinEventHook returns
    main_pc,            \* where the callback is: "idle", or "unhooked" (between
                        \* UnhookWinEvent and SetWinEventHook)
    visible,            \* IsWindowVisible, per window handle
    main_last,          \* history: the most recent handle_win_event_main call
    \* ---- the UI thread, which runs the ticks on the border
    tick_pc,            \* "idle", or the tick function the thread is inside
    tick_count          \* history: the ticks entered so far (capped)

spiralVars == <<spiral_angle, spiral_norm, spiral_last>>
fadeVars == <<fade_progress, fade_to_visible, active_opacity, inactive_opacity,
              is_active_window, event_anim, fade_last, finished_at, after_finish>>
dispVars == <<border_pointer, factory_pointer, process, border_window, calls,
              win_last>>
cfgVars == <<config, animations>>
watchVars == <<hooks, next_hook, main_pc, visible, main_last>>
raceVars == <<tick_pc, tick_count>>
vars == <<spiralVars, fadeVars, dispVars, cfgVars, watchVars, raceVars>>

Min(a, b) == IF a <= b THEN a ELSE b
Max(a, b) == IF a >= b THEN a ELSE b

(***************************************************************************)
(* Bounds of the model.                                                    *)
(***************************************************************************)
\* Longest frame time handed to a tick, in tenths of a second.
MaxElapsed == 5

Elapsed == 0 .. MaxElapsed

(***************************************************************************)
(* Spiral and reverse spiral (animations.rs:72-106).                       *)
(***************************************************************************)
FullTurn == 360
MaxSpiralStep == 359

\* Speeds in degrees/second; 100 is the configured default, 3600 makes the
\* per-tick cap bite within one tenth of a second.
SpiralSpeeds == {10, 20, 100, 3600}

\* Rust's % on f32: the remainder has the sign of the dividend.
FRem(a, m) == IF a >= 0 THEN a % m ELSE -((-a) % m)

\* A step without the per-tick cap.
SpiralStepUncapped(elapsed, speed) == (elapsed * speed) \div 10

\* (anim_elapsed.as_secs_f32() * anim_speed).min(359.0)
SpiralStep(elapsed, speed) == Min((elapsed * speed) \div 10, MaxSpiralStep)

\* A spiral tick that never wraps.
NormalizeSpiralNever(angle) == angle

\* animations.rs:73-75: only an angle of 360 or more is wrapped, by one turn.
NormalizeSpiral(angle) == IF angle >= FullTurn THEN angle - FullTurn ELSE angle

\* animations.rs:93-96: remainder, then one turn added to a negative result.
NormalizeReverseSpiral(angle) ==
    LET r == FRem(angle, FullTurn) IN IF r < 0 THEN r + FullTurn ELSE r

animate_spiral(elapsed, speed) ==
    LET n == NormalizeSpiral(spiral_angle)
        d == SpiralStep(elapsed, speed)
    IN  /\ spiral_norm' = n
        /\ spiral_angle' = n + d
        /\ spiral_last' = [op |-> "spiral", delta |-> d, pre |-> spiral_angle,
                        elapsed |-> elapsed, speed |-> speed,
                        rotation |-> n + d]

animate_reverse_spiral(elapsed, speed) ==
    LET n == NormalizeReverseSpiral(spiral_angle)
        d == SpiralStep(elapsed, speed)
    IN  /\ spiral_norm' = n
        /\ spiral_angle' = n - d
        /\ spiral_last' = [op |-> "reverse", delta |-> d, pre |-> spiral_angle,
                        elapsed |-> elapsed, speed |-> speed,
                        rotation |-> n - d]

SpiralInit ==
    /\ spiral_angle = 0
    /\ spiral_norm = 0
    /\ spiral_last = [op |-> "none", delta |-> 0, pre |-> 0,
                      elapsed |-> 0, speed |-> 0, rotation |-> 0]

SpiralTick ==
    /\ \E e \in Elapsed, s \in SpiralSpeeds : animate_spiral(e, s)
    /\ UNCHANGED <<fadeVars, dispVars, cfgVars, watchVars, raceVars>>

ReverseSpiralTick ==
    /\ \E e \in Elapsed, s \in SpiralSpeeds : animate_reverse_spiral(e, s)
    /\ UNCHANGED <<fadeVars, dispVars, cfgVars, watchVars, raceVars>>


(***************************************************************************)
(* Fade (animations.rs:108-159).                                           *)
(***************************************************************************)
ANIM_NONE == 0
ANIM_FADE == 1

\* 1.0 in thousandths: the upper end of 0.0..=1.0 and of clamp(0.0, 1.0).
One == 1000

\* Speeds in progress-units/second.
FadeSpeeds == {1, 2}

\* crate::utils::cubic_bezier lives outside animations.rs and is modelled
\* from the specification: the control points are validated when the curve is built
\* (InvalidCurve otherwise), and the resulting function maps [0,1] into
\* [0,1], is non-decreasing for the ease-in-out points, and is exactly 0.0
\* at 0.0 and exactly 1.0 at 1.0.  Control points are in hundredths.
cubic_bezier_ok(x1, y1, x2, y2) == x1 \in 0 .. 100 /\ x2 \in 0 .. 100

\* The ease-in-out curve (0.42, 0.0, 0.58, 1.0) sampled at every tenth of its
\* input, in thousandths, and linear between the samples.
EaseTable == <<0, 20, 82, 187, 332, 500, 668, 813, 918, 980, 1000>>

ease_in_out_quad(x) ==
    LET step == One \div (Len(EaseTable) - 1)
        i == x \div step
        r == x % step
    IN  IF r = 0 THEN EaseTable[i + 1]
        ELSE EaseTable[i + 1] + ((EaseTable[i + 2] - EaseTable[i + 1]) * r) \div step

\* Mutant: the first-appearance test with "or" for "and".
IsFirstAppearanceEither(active, inactive) == active = 0 \/ inactive = 0

\* animations.rs:111: both opacities exactly 0.0.
IsFirstAppearance(active, inactive) == active = 0 /\ inactive = 0

\* Mutant: the two seeds exchanged.
SeedProgressSwapped(focused) == IF focused THEN One ELSE 0

\* animations.rs:112-115
SeedProgress(focused) == IF focused THEN 0 ELSE One

\* Mutant: the direction of an unfocused window, whatever the focus.
DirectionAlwaysDown(focused) == -1

\* animations.rs:119-122
Direction(focused) == IF focused THEN 1 ELSE -1

\* animations.rs:124: anim_elapsed.as_secs_f32() * anim_speed * direction
DeltaX(elapsed, speed, focused) ==
    ((elapsed * speed * One) \div 10) * Direction(focused)

\* Mutant: a fade that also counts as finished when it reaches a bound.
FadeFinishedAtBound(p) == p <= 0 \/ p >= One

\* animations.rs:128: !(0.0..=1.0).contains(&fade_progress), both ends included.
FadeFinished(p) == p < 0 \/ p > One

\* Mutant: the clamp left out.
Clamp01Missing(p) == p

\* Mutant: the clamp to the farther bound.
Clamp01Opposite(p) == IF p < 0 THEN One ELSE IF p > One THEN 0 ELSE p

\* animations.rs:129: fade_progress.clamp(0.0, 1.0)
Clamp01(p) == Max(0, Min(p, One))

\* Mutant: the inactive side given the active side's opacity.
FinalOpacitiesSame(final) == <<final, final>>

\* animations.rs:131-132: the opacities of a finished fade.
FinalOpacities(final) == <<final, One - final>>

\* animations.rs:149-155: the opacities of a fade in progress.
NewOpacities(to_visible, focused, y) ==
    IF to_visible
    THEN IF focused THEN <<y, 0>> ELSE <<0, One - y>>
    ELSE <<y, One - y>>

\* Mutant: a failed curve construction that resets both opacities.
OpacitiesOnCurveErrorReset(active, inactive) == <<0, 0>>

\* animations.rs:143-145: the early return leaves both opacities as they are.
OpacitiesOnCurveError(active, inactive) == <<active, inactive>>

\* The whole of animate_fade; curve_ok is the outcome of cubic_bezier(..).
animate_fade(elapsed, speed, curve_ok) ==
    LET first == IsFirstAppearance(active_opacity, inactive_opacity)
        seeded == IF first THEN SeedProgress(is_active_window) ELSE fade_progress
        to_visible == IF first THEN TRUE ELSE fade_to_visible
        p == seeded + DeltaX(elapsed, speed, is_active_window)
    IN  /\ IF FadeFinished(p)
           THEN LET final == Clamp01(p) IN
                /\ active_opacity' = FinalOpacities(final)[1]
                /\ inactive_opacity' = FinalOpacities(final)[2]
                /\ fade_progress' = final
                /\ fade_to_visible' = FALSE
                /\ event_anim' = ANIM_NONE
                /\ finished_at' = IF finished_at = -1 THEN final ELSE finished_at
                /\ after_finish' = IF finished_at = -1 THEN 0
                                   ELSE Min(after_finish + 1, 2)
           ELSE /\ fade_progress' = p
                /\ fade_to_visible' = to_visible
                /\ UNCHANGED <<event_anim, finished_at>>
                /\ after_finish' = IF finished_at = -1 THEN 0
                                   ELSE Min(after_finish + 1, 2)
                /\ IF curve_ok
                   THEN LET o == NewOpacities(to_visible, is_active_window,
                                              ease_in_out_quad(p)) IN
                        /\ active_opacity' = o[1]
                        /\ inactive_opacity' = o[2]
                   ELSE LET o == OpacitiesOnCurveError(active_opacity,
                                                       inactive_opacity) IN
                        /\ active_opacity' = o[1]
                        /\ inactive_opacity' = o[2]
        /\ fade_last' = [op |-> "fade", now |-> TRUE,
                         elapsed |-> elapsed, speed |-> speed,
                         focus |-> is_active_window,
                         flipped |-> (fade_last.op = "fade"
                                      /\ fade_last.focus # is_active_window),
                         progress |-> fade_progress,
                         to_visible |-> fade_to_visible,
                         active |-> active_opacity,
                         inactive |-> inactive_opacity,
                         anim |-> event_anim,
                         curve_ok |-> curve_ok,
                         eased |-> (curve_ok /\ ~FadeFinished(p))]
        /\ UNCHANGED is_active_window

FadeInit ==
    /\ fade_progress = 0
    /\ fade_to_visible = FALSE
    /\ active_opacity = 0
    /\ inactive_opacity = 0
    /\ is_active_window \in BOOLEAN
    /\ event_anim = ANIM_NONE
    /\ fade_last = [op |-> "none", now |-> FALSE, elapsed |-> 0, speed |-> 0, focus |-> FALSE,
                    flipped |-> FALSE, progress |-> 0, to_visible |-> FALSE,
                    active |-> 0, inactive |-> 0, anim |-> ANIM_NONE,
                    curve_ok |-> TRUE, eased |-> FALSE]
    /\ finished_at = -1
    /\ after_finish = 0

\* animate_fade always builds the curve (0.42, 0.0, 0.58, 1.0).
FadeTick ==
    /\ \E e \in Elapsed, s \in FadeSpeeds :
          animate_fade(e, s, cubic_bezier_ok(42, 0, 58, 100))
    /\ UNCHANGED <<spiralVars, dispVars, cfgVars, watchVars, raceVars>>

\* A frame in which time has passed: the frame driver hands every tick the
\* wall-clock time since the previous frame.
FadeTickPositive ==
    /\ \E e \in Elapsed \ {0}, s \in FadeSpeeds :
          animate_fade(e, s, cubic_bezier_ok(42, 0, 58, 100))
    /\ UNCHANGED <<spiralVars, dispVars, cfgVars, watchVars, raceVars>>

\* A tick whose curve is built from control points that may be invalid:
\* x1 = 1.42 is outside [0, 1].
FadeTickAnyCurve ==
    /\ \E e \in Elapsed, s \in FadeSpeeds, x1 \in {42, 142} :
          animate_fade(e, s, cubic_bezier_ok(x1, 0, 58, 100))
    /\ UNCHANGED <<spiralVars, dispVars, cfgVars, watchVars, raceVars>>

\* A focus change of the tracked window.  The code that reacts to it belongs
\* to WindowBorder, outside animations.rs; from the specification, it turns
\* the border's focus flag over and retriggers the fade.
FocusChange ==
    /\ is_active_window' = ~is_active_window
    /\ event_anim' = ANIM_FADE
    /\ finished_at' = -1
    /\ after_finish' = 0
    /\ fade_last' = [fade_last EXCEPT !.now = FALSE]
    /\ UNCHANGED <<fade_progress, fade_to_visible, active_opacity,
                   inactive_opacity>>
    /\ UNCHANGED <<spiralVars, dispVars, cfgVars, watchVars, raceVars>>

(***************************************************************************)
(* The border event dispatcher, handle_win_event (event_hook.rs:25-89).    *)
(***************************************************************************)
\* Longest record of calls made on the border.
MaxCalls == 3

\* The event kinds handle_win_event matches, and two it does not.
HandledEvents == {"EVENT_OBJECT_LOCATIONCHANGE", "EVENT_SYSTEM_FOREGROUND",
                  "EVENT_OBJECT_HIDE", "EVENT_OBJECT_SHOW",
                  "EVENT_OBJECT_DESTROY"}
WinEvents == HandledEvents \cup {"EVENT_OBJECT_CREATE", "EVENT_OBJECT_FOCUS"}

ObjectIds == {"OBJID_WINDOW", "OBJID_CURSOR"}

\* The window the border tracks, and another one.
Hwnds == {"tracked", "other"}

\* ShowWindow(m_window, cmd): a destroyed window handle is rejected.
ShowWindow(window, cmd) ==
    IF window = "Destroyed" THEN window
    ELSE IF cmd = "SW_HIDE" THEN "Hidden" ELSE "Tracking"

\* DestroyWindow(m_window)
DestroyWindow(window) == "Destroyed"

\* The lookups a branch unwraps (event_hook.rs:39-40, 47-48, 72, 76, 80).
LookupsPopulated(event, border, factory) ==
    CASE event \in {"EVENT_OBJECT_LOCATIONCHANGE", "EVENT_SYSTEM_FOREGROUND"}
            -> border /\ factory
      [] event \in {"EVENT_OBJECT_HIDE", "EVENT_OBJECT_SHOW",
                    "EVENT_OBJECT_DESTROY"}
            -> border
      [] OTHER -> TRUE

\* What a branch calls on the border once its lookups succeeded.
BorderCall(event) ==
    CASE event = "EVENT_OBJECT_LOCATIONCHANGE" -> "update"
      [] event = "EVENT_SYSTEM_FOREGROUND" -> "set_pos"
      [] event = "EVENT_OBJECT_HIDE" -> "ShowWindow(SW_HIDE)"
      [] event = "EVENT_OBJECT_SHOW" -> "ShowWindow(SW_SHOWNA)"
      [] event = "EVENT_OBJECT_DESTROY" -> "DestroyWindow"

\* A gained-foreground notification that shows the border again.
WindowAfterForegroundShows(event, window) ==
    CASE event = "EVENT_OBJECT_HIDE" -> ShowWindow(window, "SW_HIDE")
      [] event \in {"EVENT_OBJECT_SHOW", "EVENT_SYSTEM_FOREGROUND"}
            -> ShowWindow(window, "SW_SHOWNA")
      [] event = "EVENT_OBJECT_DESTROY" -> DestroyWindow(window)
      [] OTHER -> window

\* The border's window after that call.  update and set_pos are methods of
\* WindowBorder; from the specification they reposition and redraw and
\* leave the border's state as it is.
WindowAfter(event, window) ==
    CASE event = "EVENT_OBJECT_HIDE" -> ShowWindow(window, "SW_HIDE")
      [] event = "EVENT_OBJECT_SHOW" -> ShowWindow(window, "SW_SHOWNA")
      [] event = "EVENT_OBJECT_DESTROY" -> DestroyWindow(window)
      [] OTHER -> window

\* The fields the ticks animate.
animState == <<spiral_angle, fade_progress, fade_to_visible, active_opacity,
               inactive_opacity, event_anim>>

\* A dispatcher that acts only on notifications for the tracked window.
TargetsBorderTracked(hwnd) == hwnd = "tracked"

\* event_hook.rs:34-84 never compares hwnd with the window the border tracks
\* (it only prints it, line 45): every notification is taken to be about
\* the one global border.
TargetsBorder(hwnd) == TRUE

\* A dispatcher that waits for the UI thread to leave the tick.
HookMayRunLocked(pc) == pc = "idle"

\* event_hook.rs:38-84 dereferences the raw BORDER_POINTER inside unsafe
\* blocks, taking no lock and posting no message: the callback runs wherever
\* the UI thread is.
HookMayRun(pc) == TRUE

\* The whole of handle_win_event.  A failed unwrap panics inside an
\* extern "system" function, which ends the process.
handle_win_event(event, hwnd, id_object) ==
    /\ UNCHANGED <<spiralVars, fadeVars>>
    /\ win_last' = [op |-> "event", event |-> event, hwnd |-> hwnd,
                    id_object |-> id_object, border |-> border_pointer,
                    factory |-> factory_pointer, window |-> border_window,
                    calls |-> calls, during |-> tick_pc,
                    tick |-> tick_count, anim |-> animState,
                    anim_after |-> animState']
    /\ IF \/ id_object = "OBJID_CURSOR"
          \/ event \notin HandledEvents
          \/ ~TargetsBorder(hwnd)
       THEN UNCHANGED <<process, border_window, calls>>
       ELSE IF ~LookupsPopulated(event, border_pointer, factory_pointer)
       THEN /\ process' = "aborted"
            /\ UNCHANGED <<border_window, calls>>
       ELSE /\ calls' = Append(calls, BorderCall(event))
            /\ border_window' = WindowAfter(event, border_window)
            /\ UNCHANGED process
    /\ UNCHANGED <<border_pointer, factory_pointer>>

DispInit ==
    /\ border_pointer = FALSE
    /\ factory_pointer = FALSE
    /\ process = "running"
    /\ border_window = "Tracking"
    /\ calls = <<>>
    /\ win_last = [op |-> "none", event |-> "", hwnd |-> "", id_object |-> "",
                   border |-> FALSE, factory |-> FALSE, window |-> "Tracking",
                   calls |-> <<>>, during |-> "idle", tick |-> 0,
                   anim |-> animState, anim_after |-> animState]

HandleWinEvent ==
    /\ process = "running"
    /\ Len(calls) < MaxCalls
    /\ HookMayRun(tick_pc)
    /\ \E event \in WinEvents, hwnd \in Hwnds, id_object \in ObjectIds :
          handle_win_event(event, hwnd, id_object)
    /\ UNCHANGED <<cfgVars, watchVars, raceVars>>

\* BORDER_POINTER and FACTORY_POINTER are set by crate::border, outside
\* event_hook.rs: each is populated once, in either order.
SetBorderPointer ==
    /\ process = "running"
    /\ ~border_pointer
    /\ border_pointer' = TRUE
    /\ win_last' = [win_last EXCEPT !.op = "none"]
    /\ UNCHANGED <<factory_pointer, process, border_window, calls>>
    /\ UNCHANGED <<spiralVars, fadeVars, cfgVars, watchVars, raceVars>>

SetFactoryPointer ==
    /\ process = "running"
    /\ ~factory_pointer
    /\ factory_pointer' = TRUE
    /\ win_last' = [win_last EXCEPT !.op = "none"]
    /\ UNCHANGED <<border_pointer, process, border_window, calls>>
    /\ UNCHANGED <<spiralVars, fadeVars, cfgVars, watchVars, raceVars>>

(***************************************************************************)
(* Configuration loading (animations.rs:22-70).                            *)
(***************************************************************************)
AnimationType == {"Spiral", "ReverseSpiral", "Fade"}

DefaultSpeed == 100
DefaultFps == 60

\* The first integer an f32 cannot tell from its successor: 2^24.
F32Exact == 16777216

\* A serde_yaml Value: null, a number (whole speeds only) or a string.
Null == [tag |-> "null", num |-> 0]
Number(n) == [tag |-> "number", num |-> n]
String == [tag |-> "string", num |-> 0]
Values == {Null, Number(50), Number(F32Exact + 1), String}

\* The spacing of the f32 values around the integer n >= 0.
RECURSIVE F32Ulp(_, _)
F32Ulp(n, u) == IF n < u * F32Exact THEN u ELSE F32Ulp(n, 2 * u)

\* `f as f32`: to the nearest f32, ties to the even mantissa.
F32(n) ==
    LET a == IF n < 0 THEN -n ELSE n
        u == F32Ulp(a, 1)
        q == a \div u
        r == a % u
        up == (2 * r > u) \/ (2 * r = u /\ q % 2 = 1)
        m == (IF up THEN q + 1 ELSE q) * u
    IN  IF n < 0 THEN -m ELSE m

\* Mutant: a null or invalid speed resolved to zero.
SpeedOfNullZero(value) == IF value.tag = "number" THEN F32(value.num) ELSE 0

\* animations.rs:34-44: the speed a value resolves to.
SpeedOf(value) ==
    IF value.tag = "number" THEN F32(value.num) ELSE DefaultSpeed

\* A section of the document: absent, null, a scalar, or a mapping from
\* animation types to values.
EmptyMap == [k \in {} |-> 0]
Section(kind, map) == [kind |-> kind, map |-> map]
Sections ==
    {Section("absent", EmptyMap), Section("null", EmptyMap),
     Section("scalar", EmptyMap)}
    \cup {Section("map", m) : m \in UNION {[K -> Values] : K \in SUBSET AnimationType}}

\* The fps field: absent, or an integer.
FpsFields == {[kind |-> "absent", num |-> 0], [kind |-> "number", num |-> 30]}

Documents == [active : Sections, inactive : Sections, fps : FpsFields]

\* A section in the YAML document parses as the Option<HashMap<..>> of
\* animations.rs:26, which a scalar does not.
SectionParses(section) == section.kind # "scalar"

\* animations.rs:22-48 behind #[serde(default, deserialize_with)]: an absent
\* field takes HashMap::default(), a null one the early return of line 28.
animation(section) ==
    IF section.kind \in {"absent", "null"} THEN EmptyMap
    ELSE [k \in DOMAIN section.map |-> SpeedOf(section.map[k])]

\* animations.rs:58-59, 68-70
fps_of(field) == IF field.kind = "absent" THEN DefaultFps ELSE field.num

Unloaded == [status |-> "unloaded", active |-> EmptyMap, inactive |-> EmptyMap,
             fps |-> 0]

\* Deserialize for Animations (animations.rs:50-66).
deserialize(doc) ==
    IF SectionParses(doc.active) /\ SectionParses(doc.inactive)
    THEN [status |-> "ok", active |-> animation(doc.active),
          inactive |-> animation(doc.inactive), fps |-> fps_of(doc.fps)]
    ELSE [Unloaded EXCEPT !.status = "error"]

CfgInit ==
    /\ config = [active |-> Section("absent", EmptyMap),
                 inactive |-> Section("absent", EmptyMap),
                 fps |-> [kind |-> "absent", num |-> 0]]
    /\ animations = Unloaded

\* Any document may be the one that is loaded.
CfgInitAny ==
    /\ config \in Documents
    /\ animations = Unloaded

LoadConfig ==
    /\ animations.status = "unloaded"
    /\ animations' = deserialize(config)
    /\ UNCHANGED config
    /\ UNCHANGED <<spiralVars, fadeVars, dispVars, watchVars, raceVars>>

(***************************************************************************)
(* The window-creation watcher (event_hook.rs:91-135).                     *)
(***************************************************************************)
\* Most hooks ever registered.
MaxHooks == 4

\* The top-level windows other processes create, show and hide.
Windows == {"w1", "w2"}

\* The hook is registered for EVENT_MIN..EVENT_MAX: it gets every kind.
MainEvents == {"EVENT_OBJECT_CREATE", "EVENT_OBJECT_SHOW",
               "EVENT_OBJECT_LOCATIONCHANGE"}

\* event_hook.rs:101-102: a create event for a window that is visible.
CreatedVisible(event, hwnd) ==
    event = "EVENT_OBJECT_CREATE" /\ visible[hwnd]

\* Mutant: the delivering hook left registered.
UnhookNothing(registered, h) == registered

\* event_hook.rs:103: UnhookWinEvent(h_win_event_hook)
UnhookWinEvent(registered, h) == registered \ {h}

\* event_hook.rs:109-117: SetWinEventHook registers one more hook, under a
\* fresh handle.  Its result is not looked at; it is taken to succeed.
SetWinEventHook(registered, fresh) == registered \cup {fresh}

\* handle_win_event_main up to the sleep of line 108: the hook h delivers
\* `event` for `hwnd`.  Any other event, or a create event for an invisible
\* window, returns at once.
handle_win_event_main(h, event, hwnd) ==
    /\ main_last' = [op |-> "event", hook |-> h, event |-> event,
                     hwnd |-> hwnd, rearm |-> CreatedVisible(event, hwnd),
                     hooks |-> hooks, fresh |-> 0]
    /\ IF CreatedVisible(event, hwnd)
       THEN /\ hooks' = UnhookWinEvent(hooks, h)
            /\ main_pc' = "unhooked"
       ELSE UNCHANGED <<hooks, main_pc>>
    /\ UNCHANGED <<next_hook, visible>>

\* handle_win_event_main after the sleep: lines 109-117, and the return.
handle_win_event_main_rearm ==
    /\ hooks' = SetWinEventHook(hooks, next_hook)
    /\ next_hook' = next_hook + 1
    /\ main_pc' = "idle"
    /\ main_last' = [main_last EXCEPT !.op = "rearmed", !.fresh = next_hook]
    /\ UNCHANGED visible

\* One watcher is registered at start-up, outside event_hook.rs, under
\* handle 1.
WatchInit ==
    /\ hooks = {1}
    /\ next_hook = 2
    /\ main_pc = "idle"
    /\ visible = [w \in Windows |-> FALSE]
    /\ main_last = [op |-> "none", hook |-> 0, event |-> "", hwnd |-> "",
                    rearm |-> FALSE, hooks |-> {}, fresh |-> 0]

\* A registered hook delivers an event; the callbacks run one at a time on
\* the thread that registered the hooks.
MainEvent ==
    /\ main_pc = "idle"
    /\ next_hook <= MaxHooks
    /\ \E h \in hooks, event \in MainEvents, hwnd \in Windows :
          handle_win_event_main(h, event, hwnd)
    /\ UNCHANGED <<spiralVars, fadeVars, dispVars, cfgVars, raceVars>>

MainRearm ==
    /\ main_pc = "unhooked"
    /\ handle_win_event_main_rearm
    /\ UNCHANGED <<spiralVars, fadeVars, dispVars, cfgVars, raceVars>>

\* Another process shows or hides one of its windows (IsWindowVisible).
WindowVisibility ==
    /\ \E w \in Windows : visible' = [visible EXCEPT ![w] = ~@]
    /\ main_last' = [main_last EXCEPT !.op = IF main_pc = "idle"
                                              THEN "none" ELSE @]
    /\ UNCHANGED <<hooks, next_hook, main_pc>>
    /\ UNCHANGED <<spiralVars, fadeVars, dispVars, cfgVars, raceVars>>

(***************************************************************************)
(* The UI thread and the hook callbacks on one border.  A tick function    *)
(* (animations.rs:72, 88, 108) holds `border: &mut WindowBorder` from its  *)
(* entry to its return; the thread that runs it is not the one the hook    *)
(* callbacks arrive on.                                                    *)
(***************************************************************************)
\* Most ticks followed.
MaxTicks == 1

TickFunctions == {"animate_fade", "animate_spiral", "animate_reverse_spiral"}

RaceInit ==
    /\ tick_pc = "idle"
    /\ tick_count = 0

\* A notification about the tracked window arrives, wherever the UI thread
\* is.
HookCallback ==
    /\ process = "running"
    /\ Len(calls) < MaxCalls
    /\ HookMayRun(tick_pc)
    /\ \E event \in HandledEvents :
          handle_win_event(event, "tracked", "OBJID_WINDOW")
    /\ UNCHANGED <<cfgVars, watchVars, raceVars>>

\* The UI thread enters a tick function on the border.
TickEnter ==
    /\ process = "running"
    /\ border_pointer
    /\ tick_pc = "idle"
    /\ tick_count < MaxTicks
    /\ \E f \in TickFunctions : tick_pc' = f
    /\ tick_count' = tick_count + 1
    /\ UNCHANGED <<spiralVars, fadeVars, dispVars, cfgVars, watchVars>>

\* The tick function does its work and returns.
TickReturn ==
    /\ tick_pc # "idle"
    /\ tick_pc' = "idle"
    /\ CASE tick_pc = "animate_fade" ->
              /\ \E s \in FadeSpeeds :
                    animate_fade(MaxElapsed, s,
                                 cubic_bezier_ok(42, 0, 58, 100))
              /\ UNCHANGED spiralVars
         [] tick_pc = "animate_spiral" ->
              /\ animate_spiral(MaxElapsed, DefaultSpeed)
              /\ UNCHANGED fadeVars
         [] tick_pc = "animate_reverse_spiral" ->
              /\ animate_reverse_spiral(MaxElapsed, DefaultSpeed)
              /\ UNCHANGED fadeVars
    /\ UNCHANGED <<tick_count, dispVars, cfgVars, watchVars>>

(***************************************************************************)
(* Specifications.                                                         *)
(***************************************************************************)
Init ==
    SpiralInit /\ FadeInit /\ DispInit /\ CfgInit /\ WatchInit /\ RaceInit

SpiralNext == SpiralTick \/ ReverseSpiralTick
SpecSpiral == Init /\ [][SpiralNext]_vars

FadeNext == FadeTick \/ FocusChange
SpecFade == Init /\ [][FadeNext]_vars

\* The frame driver keeps ticking, and time passes between frames.
SpecFadeLive == Init /\ [][FadeNext]_vars /\ WF_vars(FadeTickPositive)

\* The fade with a curve construction that can fail.
FadeCurveNext == FadeTickAnyCurve \/ FocusChange
SpecFadeCurve == Init /\ [][FadeCurveNext]_vars

DispNext == HandleWinEvent \/ SetBorderPointer \/ SetFactoryPointer
SpecDispatch == Init /\ [][DispNext]_vars

WatchNext == MainEvent \/ MainRearm \/ WindowVisibility
SpecWatcher == Init /\ [][WatchNext]_vars

\* The border with its two threads: the callbacks of DispNext and the ticks.
RaceNext ==
    \/ SetBorderPointer
    \/ SetFactoryPointer
    \/ HookCallback
    \/ TickEnter
    \/ TickReturn
SpecRace == Init /\ [][RaceNext]_vars

\* The whole program: every component, from the common initial state.
Next ==
    \/ SpiralNext
    \/ FadeNext
    \/ DispNext
    \/ LoadConfig
    \/ WatchNext
    \/ HookCallback
    \/ TickEnter
    \/ TickReturn
Spec == Init /\ [][Next]_vars

ConfigInit ==
    SpiralInit /\ FadeInit /\ DispInit /\ CfgInitAny /\ WatchInit /\ RaceInit
SpecConfig == ConfigInit /\ [][LoadConfig]_vars

(***************************************************************************)
(* Properties.                                                             *)
(***************************************************************************)
\* The delta elapsed * speed of the most recent animate_fade call.
LastDelta == (fade_last.elapsed * fade_last.speed * One) \div 10

\* An animate_fade call has just returned that started in the middle of a
\* fade, with the focus turned over since the call before it.
LastFlippedMidFade ==
    /\ fade_last.op = "fade"
    /\ fade_last.now
    /\ fade_last.flipped
    /\ fade_last.progress > 0
    /\ fade_last.progress < One
    /\ fade_last.anim = ANIM_FADE

\* C1: after the normalization step at the top of every spiral or
\* reverse-spiral tick, spiral_angle lies in [0, 360).
C1_NormalizedInRange ==
    spiral_last.op # "none" => (spiral_norm >= 0 /\ spiral_norm < FullTurn)

\* An animate_fade call has just returned that was made on a focused border with both
\* opacities 0.0 and a delta of exactly 1.0.
C2_Case ==
    /\ fade_last.op = "fade"
    /\ fade_last.now
    /\ fade_last.focus
    /\ fade_last.active = 0
    /\ fade_last.inactive = 0
    /\ LastDelta = One

\* C2 as stated: such a tick completes the fade.
C2_CompletesInTick ==
    C2_Case => /\ fade_progress = One
               /\ active_opacity = One
               /\ inactive_opacity = 0
               /\ fade_to_visible = FALSE
               /\ event_anim = ANIM_NONE

\* C2 amended: such a tick brings fade_progress to exactly 1.0 and the
\* opacities to (1.0, 0.0), but 1.0 is still inside 0.0..=1.0: the fade is not
\* finished, fade_to_visible stays true and event_anim is left as it was.
C2_ReachesBoundUnfinished ==
    C2_Case => /\ fade_progress = One
               /\ active_opacity = One
               /\ inactive_opacity = 0
               /\ fade_to_visible = TRUE
               /\ event_anim = fade_last.anim

C2_Witness == C2_Case /\ fade_last.anim = ANIM_FADE /\ event_anim = ANIM_FADE

\* C3: after at least one animate_fade tick, fade_to_visible = false implies
\* active opacity + inactive opacity = 1.0.
C3_OpacitySum ==
    (fade_last.op = "fade" /\ ~fade_to_visible)
        => active_opacity + inactive_opacity = One

C3_Witness ==
    /\ fade_last.op = "fade"
    /\ ~fade_to_visible
    /\ fade_progress > 0
    /\ fade_progress < One
    /\ active_opacity > 0
    /\ inactive_opacity > 0

\* C4: a tick that follows a focus flip in the middle of a fade does not
\* re-seed fade_progress: the new progress is the old one plus the delta in
\* the new direction, clamped to [0.0, 1.0].
C4_NoReseedOnFlip ==
    LastFlippedMidFade
        => fade_progress =
               Clamp01(fade_last.progress
                       + LastDelta * (IF fade_last.focus THEN 1 ELSE -1))

\* From 0.3 with the direction turned to -1, one tenth later: 0.2.
C4_Witness ==
    /\ LastFlippedMidFade
    /\ ~fade_last.focus
    /\ fade_last.progress = 300
    /\ LastDelta = 100
    /\ fade_progress = 200

\* C5: a zero-elapsed tick after a focus flip in the middle of a fade leaves
\* both opacities as they were, fade_to_visible or not.
C5_NoJumpOnFlip ==
    (LastFlippedMidFade /\ fade_last.elapsed = 0)
        => /\ active_opacity = fade_last.active
           /\ inactive_opacity = fade_last.inactive

\* C6: once a tick has clamped fade_progress and cleared event_anim, further
\* ticks with the same focus leave the progress at that bound, the opacities
\* at (final, 1 - final) and event_anim at ANIM_NONE.
C6_IdempotentAtBound ==
    finished_at # -1
        => /\ fade_progress = finished_at
           /\ active_opacity = finished_at
           /\ inactive_opacity = One - finished_at
           /\ event_anim = ANIM_NONE

C6_Witness ==
    /\ finished_at # -1
    /\ after_finish >= 2
    /\ fade_last.elapsed > 0
    /\ fade_last.progress = finished_at

\* A handle_win_event call has just returned that one of the five handled
\* kinds reached with a lookup of its branch unpopulated.
C7_Case ==
    /\ win_last.op = "event"
    /\ win_last.event \in HandledEvents
    /\ win_last.id_object # "OBJID_CURSOR"
    /\ ~LookupsPopulated(win_last.event, win_last.border, win_last.factory)

\* C7: a notification that finds BORDER_POINTER (or FACTORY_POINTER)
\* unpopulated is a silent no-op: the process goes on and nothing changes.
C7_UnpopulatedIsNoOp ==
    C7_Case => /\ process = "running"
               /\ border_window = win_last.window
               /\ calls = win_last.calls

\* A handle_win_event call of the given kind has just returned, having found
\* its lookups populated.
Dispatched(event) ==
    /\ win_last.op = "event"
    /\ win_last.event = event
    /\ win_last.id_object # "OBJID_CURSOR"
    /\ LookupsPopulated(event, win_last.border, win_last.factory)

\* C8: object-hide leads from Tracking to Hidden, object-show from Hidden or
\* Tracking to Tracking, object-destroy to Destroyed, and Destroyed is
\* terminal: a notification that arrives after the destroy neither acts on
\* the border nor changes its state.
C8_StateMachine ==
    /\ (Dispatched("EVENT_OBJECT_HIDE") /\ win_last.window = "Tracking")
           => border_window = "Hidden"
    /\ (Dispatched("EVENT_OBJECT_SHOW") /\ win_last.window # "Destroyed")
           => border_window = "Tracking"
    /\ (Dispatched("EVENT_OBJECT_DESTROY") /\ win_last.window # "Destroyed")
           => border_window = "Destroyed"
    /\ (win_last.op = "event" /\ win_last.window = "Destroyed")
           => (border_window = "Destroyed" /\ calls = win_last.calls)

\* A section of the document resolved as C9 says, with `kept` telling what
\* becomes of a numeric value.
ResolvedAs(section, resolved, kept(_)) ==
    IF section.kind \in {"absent", "null"} THEN resolved = EmptyMap
    ELSE /\ DOMAIN resolved = DOMAIN section.map
         /\ \A k \in DOMAIN section.map :
               resolved[k] = IF section.map[k].tag = "number"
                             THEN kept(section.map[k].num)
                             ELSE 100

SameValue(n) == n

\* C9 as stated: each resolved section has the keys of the configured one, a
\* numeric value is kept, anything else becomes 100.0; an absent or null
\* section resolves to the empty map and an absent fps to 60.
C9_NumericKept ==
    animations.status = "ok"
        => /\ ResolvedAs(config.active, animations.active, SameValue)
           /\ ResolvedAs(config.inactive, animations.inactive, SameValue)
           /\ (config.fps.kind = "absent" => animations.fps = 60)

\* C9 amended: a numeric value is kept as the nearest f32, which is the value
\* itself whenever an f32 represents it.
C9_NumericKeptAsF32 ==
    animations.status = "ok"
        => /\ ResolvedAs(config.active, animations.active, F32)
           /\ ResolvedAs(config.inactive, animations.inactive, F32)
           /\ (config.fps.kind = "absent" => animations.fps = 60)

\* {active: {Fade: null}, inactive: {Fade: 50}} -> {Fade: 100.0}, {Fade: 50.0}
C9_Witness ==
    /\ animations.status = "ok"
    /\ config.active = Section("map", [k \in {"Fade"} |-> Null])
    /\ config.inactive = Section("map", [k \in {"Fade"} |-> Number(50)])
    /\ config.fps.kind = "absent"
    /\ animations.active = [k \in {"Fade"} |-> 100]
    /\ animations.inactive = [k \in {"Fade"} |-> 50]
    /\ animations.fps = 60

\* C10: a create event for a visible window unhooks the hook that delivered
\* it and then registers one fresh watcher; any other delivery changes no
\* registration; so at most one watcher is registered at any time, and
\* exactly one whenever no callback is executing.
C10_OneShotWatcher ==
    /\ Cardinality(hooks) <= 1
    /\ (main_pc = "idle" => Cardinality(hooks) = 1)
    /\ (main_last.op = "event" /\ ~main_last.rearm)
           => (hooks = main_last.hooks /\ main_pc = "idle")
    /\ (main_last.op = "event" /\ main_last.rearm)
           => (hooks = main_last.hooks \ {main_last.hook}
               /\ main_pc = "unhooked")
    /\ (main_last.op = "rearmed"
           => /\ main_last.fresh \notin main_last.hooks
              /\ hooks = (main_last.hooks \ {main_last.hook})
                             \cup {main_last.fresh})

\* The watcher has re-armed itself twice and is idle again.
C10_Witness ==
    /\ main_last.op = "rearmed"
    /\ main_pc = "idle"
    /\ main_last.hook = 2
    /\ hooks = {3}

\* C11: a fade self-terminates: from a state with event_anim = ANIM_FADE, as
\* long as the focus stays what it is, ticks with a positive delta lead to a
\* state in which a tick has set event_anim = ANIM_NONE, with fade_progress
\* at 1.0 when focused and at 0.0 when unfocused.
C11_FadeTerminates ==
    \A f \in BOOLEAN :
        (event_anim = ANIM_FADE /\ is_active_window = f)
            ~> \/ is_active_window # f
               \/ /\ event_anim = ANIM_NONE
                  /\ fade_progress = (IF f THEN One ELSE 0)

\* A tick has just ended a fade that was running, at the upper bound.
C11_Witness ==
    /\ fade_last.op = "fade"
    /\ fade_last.now
    /\ fade_last.anim = ANIM_FADE
    /\ fade_last.progress > 0
    /\ fade_last.progress < One
    /\ is_active_window
    /\ event_anim = ANIM_NONE
    /\ fade_progress = One

\* C13: after any sequence of animate_fade ticks, fade_progress and both
\* opacities lie in [0.0, 1.0].
C13_FadeInRange ==
    /\ fade_progress >= 0 /\ fade_progress <= One
    /\ active_opacity >= 0 /\ active_opacity <= One
    /\ inactive_opacity >= 0 /\ inactive_opacity <= One

\* A tick has just clamped a running fade at the lower bound.
C13_Witness ==
    /\ fade_last.op = "fade"
    /\ fade_last.now
    /\ fade_last.progress > 0
    /\ ~is_active_window
    /\ event_anim = ANIM_NONE
    /\ fade_progress = 0
    /\ inactive_opacity = One

\* Both opacities were 0.0 when the most recent animate_fade call started.
LastFirstAppearance == fade_last.active = 0 /\ fade_last.inactive = 0

\* The progress the most recent call added its delta to, if C15 is right.
LastSeeded ==
    IF LastFirstAppearance THEN (IF fade_last.focus THEN 0 ELSE One)
    ELSE fade_last.progress

\* fade_to_visible after the seeding step of the most recent call.
LastSeededToVisible == LastFirstAppearance \/ fade_last.to_visible

\* The progress of the most recent call before the termination check.
LastRaw == LastSeeded + LastDelta * (IF fade_last.focus THEN 1 ELSE -1)

\* C15: exactly when both opacities are 0.0 at the start of a tick,
\* fade_progress is re-seeded (0.0 if focused, 1.0 otherwise) and
\* fade_to_visible set before the delta is applied; otherwise the seeding
\* step touches neither.
C15_FirstAppearanceSeed ==
    (fade_last.op = "fade" /\ fade_last.now)
        => /\ fade_progress = Max(0, Min(LastRaw, One))
           /\ (LastRaw >= 0 /\ LastRaw <= One)
                  => fade_to_visible = LastSeededToVisible

\* An unfocused border with both opacities 0.0 and progress 0.0 is seeded to
\* 1.0 and goes down from there; one that is not a first appearance, with the
\* flag down, keeps it down.
C15_Witness ==
    /\ fade_last.op = "fade"
    /\ fade_last.now
    /\ LastFirstAppearance
    /\ ~fade_last.focus
    /\ fade_last.progress = 0
    /\ ~fade_last.to_visible
    /\ fade_progress = 900
    /\ fade_to_visible

\* C16: a tick whose new progress is strictly outside [0.0, 1.0] sets
\* fade_progress to the nearest bound f, the opacities to (f, 1 - f),
\* fade_to_visible to false and event_anim to ANIM_NONE without evaluating
\* the easing curve; a tick whose new progress is inside leaves event_anim
\* and fade_to_visible as they were after the seeding step.
C16_TerminationStep ==
    (fade_last.op = "fade" /\ fade_last.now)
        => IF LastRaw < 0 \/ LastRaw > One
           THEN LET f == IF LastRaw < 0 THEN 0 ELSE One IN
                /\ fade_progress = f
                /\ active_opacity = f
                /\ inactive_opacity = One - f
                /\ fade_to_visible = FALSE
                /\ event_anim = ANIM_NONE
                /\ ~fade_last.eased
           ELSE /\ event_anim = fade_last.anim
                /\ fade_to_visible = LastSeededToVisible

\* A running fade with fade_to_visible set ends at the lower bound.
C16_Witness ==
    /\ fade_last.op = "fade"
    /\ fade_last.now
    /\ fade_last.anim = ANIM_FADE
    /\ fade_last.to_visible
    /\ LastRaw < 0
    /\ event_anim = ANIM_NONE

\* C17: when the construction of the easing curve fails in a tick whose new
\* progress lies in [0.0, 1.0], both opacities are what they were before the
\* tick, and the process goes on.
C17_CurveErrorNoOp ==
    (fade_last.op = "fade" /\ fade_last.now /\ ~fade_last.curve_ok
         /\ LastRaw >= 0 /\ LastRaw <= One)
        => /\ active_opacity = fade_last.active
           /\ inactive_opacity = fade_last.inactive
           /\ process = "running"

\* A failed construction in the middle of a cross-fade.
C17_Witness ==
    /\ fade_last.op = "fade"
    /\ fade_last.now
    /\ ~fade_last.curve_ok
    /\ fade_last.elapsed > 0
    /\ fade_last.active > 0
    /\ fade_last.inactive > 0
    /\ fade_progress > 0
    /\ fade_progress < One
    /\ fade_progress # fade_last.progress

\* elapsed * speed of the most recent spiral tick, capped as C18 says.
LastSpiralStep ==
    Min((spiral_last.elapsed * spiral_last.speed) \div 10, MaxSpiralStep)

\* C18: from a start angle a in [0, 360), animate_spiral stores
\* a + min(d, 359) and animate_reverse_spiral stores a - min(d, 359), without
\* normalizing, and hands that angle to the rotation; an angle stored out of
\* range is wrapped at the top of the next tick of the same kind: a spiral
\* tick wraps an angle of 360 or more, a reverse-spiral tick a negative one.
C18_StoredUnnormalized ==
    /\ (spiral_last.op = "spiral"
           /\ spiral_last.pre >= 0 /\ spiral_last.pre < FullTurn)
        => /\ spiral_angle = spiral_last.pre + LastSpiralStep
           /\ spiral_last.rotation = spiral_angle
    /\ (spiral_last.op = "reverse"
           /\ spiral_last.pre >= 0 /\ spiral_last.pre < FullTurn)
        => /\ spiral_angle = spiral_last.pre - LastSpiralStep
           /\ spiral_last.rotation = spiral_angle
    /\ (spiral_last.op = "spiral" /\ spiral_last.pre >= FullTurn)
        => /\ spiral_norm = spiral_last.pre - FullTurn
           /\ spiral_angle = spiral_norm + LastSpiralStep
    /\ (spiral_last.op = "reverse" /\ spiral_last.pre < 0)
        => /\ spiral_norm = spiral_last.pre + FullTurn
           /\ spiral_angle = spiral_norm - LastSpiralStep

\* The spec's scenario: a spiral tick from 359 with a step of 2 stores 361.
C18_Witness ==
    /\ spiral_last.op = "spiral"
    /\ spiral_last.pre = 359
    /\ LastSpiralStep = 2
    /\ spiral_angle = 361

\* C20 as stated: from 0, after any sequence of spiral and reverse-spiral
\* ticks the stored angle is strictly greater than -359 and strictly less
\* than 719.
C20_StoredStrictlyWithin ==
    spiral_angle > -MaxSpiralStep /\ spiral_angle < FullTurn + MaxSpiralStep

\* C20 (amended): the stored angle is at least -359 and strictly less than
\* 719; -359 itself is stored by a capped reverse-spiral tick from 0.
C20_StoredWithin ==
    spiral_angle >= -MaxSpiralStep /\ spiral_angle < FullTurn + MaxSpiralStep

\* A capped spiral tick from 359 stores 718, the largest angle.
C20_Witness ==
    /\ spiral_last.op = "spiral"
    /\ spiral_last.pre = 359
    /\ LastSpiralStep = MaxSpiralStep
    /\ spiral_angle = 718

\* C12: the hook callbacks and the UI thread are not mutually excluded on
\* the border: while a tick function is running on it, handle_win_event can
\* still run and have its effect on the same border.
C12_NoMutualExclusion ==
    (tick_pc # "idle" /\ process = "running" /\ Len(calls) < MaxCalls
         /\ border_pointer /\ factory_pointer)
        => \A event \in HandledEvents :
              ENABLED (/\ handle_win_event(event, "tracked", "OBJID_WINDOW")
                       /\ HookCallback
                       /\ calls' = Append(calls, BorderCall(event)))

\* A tick has returned that a dispatcher action took effect within.
C12_Witness ==
    /\ win_last.op = "event"
    /\ win_last.during \in TickFunctions
    /\ win_last.event \in HandledEvents
    /\ win_last.id_object = "OBJID_WINDOW"
    /\ calls = Append(win_last.calls, BorderCall(win_last.event))
    /\ tick_pc = "idle"
    /\ tick_count = win_last.tick
    /\ (win_last.during = "animate_fade") => fade_last.op = "fade"
    /\ (win_last.during # "animate_fade") => spiral_last.op # "none"

\* C14: notifications other than object-hide, object-show and object-destroy
\* never change the border's Tracking/Hidden/Destroyed state, and no
\* notification changes animation state; a cursor-object notification has
\* no effect and needs no lookup, a location-change notification only
\* requests update, a gained-foreground notification only requests set_pos.
C14_DispatcherFrame ==
    win_last.op = "event" =>
        /\ win_last.anim_after = win_last.anim
        /\ (win_last.event \notin {"EVENT_OBJECT_HIDE", "EVENT_OBJECT_SHOW",
                                   "EVENT_OBJECT_DESTROY"})
               => border_window = win_last.window
        /\ (win_last.id_object = "OBJID_CURSOR")
               => /\ process = "running"
                  /\ border_window = win_last.window
                  /\ calls = win_last.calls
        /\ (win_last.id_object # "OBJID_CURSOR"
                /\ win_last.event = "EVENT_OBJECT_LOCATIONCHANGE")
               => calls \in {win_last.calls, Append(win_last.calls, "update")}
        /\ (win_last.id_object # "OBJID_CURSOR"
                /\ win_last.event = "EVENT_SYSTEM_FOREGROUND")
               => calls \in {win_last.calls, Append(win_last.calls, "set_pos")}

\* A gained-foreground notification reaches a hidden border: set_pos is
\* requested, the border stays hidden and the animation state is as it was.
C14_Witness ==
    /\ win_last.op = "event"
    /\ win_last.event = "EVENT_SYSTEM_FOREGROUND"
    /\ win_last.id_object = "OBJID_WINDOW"
    /\ win_last.window = "Hidden"
    /\ win_last.anim_after = animState
    /\ calls = Append(win_last.calls, "set_pos")
    /\ border_window = "Hidden"

\* What handle_win_event does to <<process, border_window, calls>> as a
\* function of the event kind, the object id and the state it starts from.
EffectOf(event, id_object, border, factory, window, made) ==
    IF id_object = "OBJID_CURSOR" \/ event \notin HandledEvents
    THEN <<"running", window, made>>
    ELSE IF ~LookupsPopulated(event, border, factory)
    THEN <<"aborted", window, made>>
    ELSE <<"running", WindowAfter(event, window),
           Append(made, BorderCall(event))>>

\* C19: the effect of handle_win_event does not depend on the notification's
\* hwnd: it is the same function of the event kind, id_object and the
\* border's state for the tracked window and for any other.
C19_HwndIgnored ==
    win_last.op = "event" =>
        <<process, border_window, calls>> =
            EffectOf(win_last.event, win_last.id_object, win_last.border,
                     win_last.factory, win_last.window, win_last.calls)

\* An object-destroy for a window the border does not track destroys the
\* border.
C19_Witness ==
    /\ win_last.op = "event"
    /\ win_last.hwnd = "other"
    /\ win_last.event = "EVENT_OBJECT_DESTROY"
    /\ win_last.id_object = "OBJID_WINDOW"
    /\ win_last.window = "Tracking"
    /\ border_window = "Destroyed"

=============================================================================
